---- MODULE Spec2Model ----
(***************************************************************************)
(* Model of robobrowser/browser.py: the RoboBrowser history stack          *)
(* (_states, _cursor, _maxlen), the navigation operations that push onto   *)
(* it (open, aopen, follow_link, submit_form, meta_refresh) and the        *)
(* traversal operations (back, forward).                                   *)
(***************************************************************************)
EXTENDS Integers, Sequences, FiniteSets, TLC

\* ------------------------------------------------------------------ bounds
MaxHist == 2        \* largest integer passed as history=N
MaxNav == 4         \* successful dispatches in one run
MaxN == 2           \* largest n passed to back(n) / forward(n)
MaxTasks == 2       \* aopen calls that may be in flight together
MaxUrlNav == 2      \* successful dispatches in one run of SpecUrl
MaxCookies == 2     \* cookies a jar holds
MaxClose == 2       \* releases (aclose, __aexit__) in one run
MaxANav == 3        \* successful dispatches in one run with aopen

\* ------------------------------------------------- Python values, encoded
HistTrue == -1      \* history=True (the default): `history is True`
None == 0           \* _maxlen = None; `if self._maxlen:` treats it as false
NoCursor == -1      \* _cursor of a browser without states

\* ---------------------------------------------------------------- URLs
\* A URL is a record: abs (scheme and host present), rooted (path starts
\* with "/"), path (its segments).  "http://h/a/b" is Abs(<<"a","b">>),
\* "/b" is Rooted(<<"b">>), "b" is Rel(<<"b">>), "" is EmptyUrl.
Abs(p) == [abs |-> TRUE, rooted |-> TRUE, path |-> p]
Rooted(p) == [abs |-> FALSE, rooted |-> TRUE, path |-> p]
Rel(p) == [abs |-> FALSE, rooted |-> FALSE, path |-> p]
EmptyUrl == [abs |-> FALSE, rooted |-> FALSE, path |-> <<>>]

Front(s) == IF Len(s) = 0 THEN s ELSE SubSeq(s, 1, Len(s) - 1)

\* urlparse.urljoin(base, url), as _build_url calls it
urljoin(base, url) ==
    IF base = EmptyUrl THEN url
    ELSE IF url = EmptyUrl THEN base
    ELSE IF url.abs THEN url
    ELSE IF url.rooted THEN [abs |-> base.abs, rooted |-> TRUE, path |-> url.path]
    ELSE [abs |-> base.abs, rooted |-> base.rooted,
          path |-> Front(base.path) \o url.path]

\* Python `x or y` on strings
OrUrl(x, y) == IF x = EmptyUrl THEN y ELSE x

\* ------------------------------------------------------- meta refresh tag
\* The content attribute is a sequence of tokens; a token is plain text
\* (k = "txt"), the literal "url=" (k = "url="), or the text of a URL
\* (k = "u", with the URL in u).
Tok(k, u) == [k |-> k, u |-> u]
TxtTok == Tok("txt", EmptyUrl)
UrlEqTok == Tok("url=", EmptyUrl)
UTok(u) == Tok("u", u)

\* a page's <meta http-equiv="refresh">: tag (present), hasattr (content
\* attribute present), content (its tokens)
Meta(tag, hasattr, content) == [tag |-> tag, hasattr |-> hasattr, content |-> content]
MetaNoTag == Meta(FALSE, FALSE, <<>>)
MetaNoAttr == Meta(TRUE, FALSE, <<>>)
MetaEmpty == Meta(TRUE, TRUE, <<>>)
MetaNoUrl == Meta(TRUE, TRUE, <<TxtTok>>)
MetaUrlEqOnly == Meta(TRUE, TRUE, <<TxtTok, UrlEqTok>>)
MetaTarget(u) == Meta(TRUE, TRUE, <<TxtTok, UrlEqTok, UTok(u)>>)

\* re_meta_refresh_content_url.search(content): the positions of a "url="
\* that at least one character follows (the pattern is url=(.+))
ReMatches(content) ==
    {i \in 1..Len(content) : content[i].k = "url=" /\ i < Len(content)}

Min(S) == CHOOSE x \in S : \A y \in S : x <= y

\* match.group(1): the text after the leftmost "url="
ReGroup1(content) == content[Min(ReMatches(content)) + 1].u

\* ------------------------------------------------------------- variables
VARIABLES
    history,        \* self.history
    maxlen,         \* self._maxlen
    states,         \* self._states: sequence of RoboState
    cursor,         \* self._cursor
    asynchronously, \* the session is an aiohttp.ClientSession
    closed,         \* self.session.closed
    tasks,          \* the aopen coroutines in flight
    navs,           \* responses wrapped in a RoboState so far
    phase,          \* shape of the call log so far
    nb,             \* successful back() calls while phase = "back1"
    backK,          \* net steps moved back since the last push
    last,           \* the last call: its arguments, outcome and pre-state
    cfg,            \* the cache arguments of __init__ and how __init__ ended
    docs,           \* per RoboState (by id): its cached parsed document
    jar,            \* self.session.cookies
    blob,           \* the text get_serialized_cookies returned
    jar2,           \* the cookies of a second, fresh session
    closes          \* how many times session.close() was called

rest == <<cfg, jar, blob, jar2, closes>>

vars == <<history, maxlen, states, cursor, asynchronously, closed, tasks,
          navs, phase, nb, backK, last, cfg, docs, jar, blob, jar2, closes>>

\* ------------------------------------------------------------ RoboState
\* RoboState(browser, response): the response (its final URL and the meta
\* refresh tag of its body) with the ordinal of the navigation that made it
RoboState(id, response) == [id |-> id, url |-> response.url, meta |-> response.meta]

Response(u, m) == [url |-> u, meta |-> m]
NoResponse == Response(EmptyUrl, MetaNoTag)

\* Python s[:k] and s[k:] on a list
SliceTo(s, k) ==
    IF k >= 0 THEN SubSeq(s, 1, IF k < Len(s) THEN k ELSE Len(s))
    ELSE SubSeq(s, 1, Len(s) + k)
SliceFrom(s, k) ==
    IF k >= 0 THEN SubSeq(s, k + 1, Len(s))
    ELSE SubSeq(s, (IF Len(s) + k > 0 THEN Len(s) + k ELSE 0) + 1, Len(s))

\* __init__, "Configure history"
InitMaxlen(h) == IF h = HistTrue THEN None ELSE IF h = 0 THEN 1 ELSE h

\* mutant: the head is evicted but the cursor is not shifted
ClearLeadingNoShift(sts, cur, ml) ==
    IF ml # None /\ Len(sts) - ml > 0
    THEN [states |-> SliceFrom(sts, Len(sts) - ml), cursor |-> cur]
    ELSE [states |-> sts, cursor |-> cur]

\* mutant: eviction starts one entry too late
ClearLeadingLate(sts, cur, ml) ==
    IF ml # None /\ Len(sts) - ml > 1
    THEN [states |-> SliceFrom(sts, Len(sts) - ml), cursor |-> cur - (Len(sts) - ml)]
    ELSE [states |-> sts, cursor |-> cur]

\* mutant: the newest entries are evicted instead of the oldest
ClearLeadingTail(sts, cur, ml) ==
    IF ml # None /\ Len(sts) - ml > 0
    THEN [states |-> SliceTo(sts, ml), cursor |-> cur - (Len(sts) - ml)]
    ELSE [states |-> sts, cursor |-> cur]

\* _update_state, "Clear leading states"
ClearLeading(sts, cur, ml) ==
    IF ml # None /\ Len(sts) - ml > 0
    THEN [states |-> SliceFrom(sts, Len(sts) - ml), cursor |-> cur - (Len(sts) - ml)]
    ELSE [states |-> sts, cursor |-> cur]

\* mutant: the forward entries are kept
ClearTrailingKeep(sts, cur) == sts

\* _update_state, "Clear trailing states"
ClearTrailing(sts, cur) == SliceTo(sts, cur + 1)

\* mutant: the cursor is not moved onto the appended state
UpdateStateStale(sts, cur, ml, st) ==
    ClearLeading(Append(ClearTrailing(sts, cur), st), cur, ml)

\* _update_state(response): the new _states and _cursor
UpdateState(sts, cur, ml, st) ==
    ClearLeading(Append(ClearTrailing(sts, cur), st), cur + 1, ml)

\* mutant: the lower bound of the range check is off by one
TraverseErrLow(h, sts, cur, n) ==
    IF h = 0 THEN "NoHistory"
    ELSE IF cur + n >= Len(sts) \/ cur + n < -1 THEN "OutOfRange"
    ELSE ""

\* mutant: the history switch is not consulted
TraverseErrNoSwitch(h, sts, cur, n) ==
    IF cur + n >= Len(sts) \/ cur + n < 0 THEN "OutOfRange"
    ELSE ""

\* _traverse(n): the error it raises, "" when it moves the cursor
TraverseErr(h, sts, cur, n) ==
    IF h = 0 THEN "NoHistory"
    ELSE IF cur + n >= Len(sts) \/ cur + n < 0 THEN "OutOfRange"
    ELSE ""

\* mutant: the first entry is taken for no entry
StateErrZero(sts, cur) ==
    IF cur <= 0 THEN "NoState"
    ELSE IF cur + 1 > Len(sts) \/ cur < -Len(sts) THEN "OutOfRange"
    ELSE ""

\* the state property: the error it raises, "" when it returns a state
StateErr(sts, cur) ==
    IF cur = NoCursor THEN "NoState"
    ELSE IF cur + 1 > Len(sts) \/ cur < -Len(sts) THEN "OutOfRange"
    ELSE ""

\* self._states[self._cursor] of a browser that has a state
CurState == states[IF cursor >= 0 THEN cursor + 1 ELSE Len(states) + cursor + 1]
CurUrl == CurState.url

\* session.request(method, url, ...) can return a response only for a URL
\* with a scheme and a host
CanDispatch(url) == url.abs

\* ------------------------------------------------------------ call log
NavOps == {"open", "aopen", "follow_link", "submit_form", "meta_refresh"}
MoveOps == {"back", "forward"}

\* the record of a call: op, its integer argument n, its URL argument, the
\* URLs it handed to the session (req), the error it raised ("" for none),
\* _states and _cursor when it was called, and whether nothing else touched
\* the history between call and return (clean)
Call(op, n, url, req, err, ps, pc, pk, clean) ==
    [op |-> op, n |-> n, url |-> url, req |-> req, err |-> err,
     pstates |-> ps, pcursor |-> pc, pbackK |-> pk, clean |-> clean]

NoCall == Call("init", 0, EmptyUrl, <<>>, "", <<>>, NoCursor, 0, TRUE)

\* phase: "nav" while only navigations were called, "back1" while they were
\* followed by back() calls only, "back" by back(n), n >= 1, only; else "mixed"
\* (kept for blocking browsers, whose calls run one after the other)
PhaseAfterNav(ph, ok) == IF ~ok \/ ph = "nav" THEN ph ELSE "mixed"
PhaseAfterMove(ph, delta) ==
    IF ph = "mixed" \/ delta >= 0 THEN "mixed"
    ELSE IF delta = -1 /\ ph \in {"nav", "back1"} THEN "back1"
    ELSE "back"

\* older: the calls that were in flight when this one was made and still are
IdleTask == [pc |-> "idle", url |-> EmptyUrl, resp |-> NoResponse,
             cstates |-> <<>>, ccursor |-> NoCursor, cbackK |-> 0, clean |-> TRUE,
             older |-> {}]
Tasks == 1..MaxTasks

\* the coroutine of call t has ended
Finish(ts, t) ==
    [s \in Tasks |-> IF s = t THEN IdleTask
                     ELSE [ts[s] EXCEPT !.older = @ \ {t}]]

\* a task in flight no longer runs alone once another call changes the history
\* (what it saw at its call is then no longer compared with what it leaves)
Disturb(ts) ==
    [t \in Tasks |-> IF ts[t].pc = "idle" THEN ts[t]
                     ELSE [ts[t] EXCEPT !.clean = FALSE, !.cstates = <<>>,
                                        !.ccursor = NoCursor, !.cbackK = 0]]

\* ------------------------------------------------- the parsed document
\* RoboState.parsed is a cached_property: doc is "unset" until the first
\* access, which parses response.content ("lazy"); load_html and reparse
\* overwrite it ("html", "re").  n counts the lazy computations; meta is the
\* meta refresh tag of the text load_html was given.
Doc(doc, n, meta) == [doc |-> doc, n |-> n, meta |-> meta]
NoDoc == Doc("unset", 0, MetaNoTag)

\* mutant: every access parses again (a plain property)
LazyParseAlways(D, id) == [D EXCEPT ![id].doc = "lazy", ![id].n = D[id].n + 1]

\* state.parsed read through the cached_property
LazyParse(D, id) ==
    IF D[id].doc = "unset"
    THEN [D EXCEPT ![id].doc = "lazy", ![id].n = D[id].n + 1]
    ELSE D

\* a RoboState that left the history is unreachable and so is its document
Gone == Doc("gone", 0, MetaNoTag)
Collect(D, sts) ==
    [i \in 1..Len(D) |->
        IF \E k \in 1..Len(sts) : sts[k].id = i THEN D[i] ELSE Gone]

\* The documents are followed only where a property reads them; elsewhere
\* docs stays Untracked, as the history never depends on them.
Untracked == <<Doc("untracked", 0, MetaNoTag)>>

\* the meta refresh tag self.find sees: that of the response body, unless
\* load_html replaced the document of the current state
CurMeta ==
    IF docs # Untracked /\ docs[CurState.id].doc = "html"
    THEN docs[CurState.id].meta
    ELSE CurState.meta

\* _update_state made a RoboState: its document is not parsed yet
DocsPushed(D, sts) == IF D = Untracked THEN D ELSE Collect(Append(D, NoDoc), sts)

\* self.parsed on the browser: the current state's cached document
ReadParsed(D, sts, cur) ==
    IF D = Untracked \/ StateErr(sts, cur) # "" THEN D
    ELSE LazyParse(D, sts[cur + 1].id)

\* the documents after a call that left D and pushed at most one new state
KeepDocs(D) == docs' = IF navs' = navs THEN D ELSE DocsPushed(D, states')

\* ------------------------------------------------------------------ Init
\* __init__(cache, max_age, max_count): an argument is "None" (not given),
\* "zero" (given, and false in Python: 0, timedelta(0)) or "set"
ArgValues == {"None", "zero", "set"}
Truthy(a) == a = "set"

\* __init__, "Set up caching": the error it raises, "" for none
ConstructErr(cache, max_age, max_count) ==
    IF cache THEN ""
    ELSE IF Truthy(max_age) THEN "ValueError"
    ELSE IF Truthy(max_count) THEN "ValueError"
    ELSE ""

\* built: "new" before __init__ runs, then "ok" or "error"
Cfg(cache, max_age, max_count, built) ==
    [cache |-> cache, max_age |-> max_age, max_count |-> max_count, built |-> built]
DefaultCfg == Cfg(FALSE, "None", "None", "ok")

Histories == {HistTrue} \cup (0..MaxHist)

Init ==
    /\ history \in Histories
    /\ maxlen = InitMaxlen(history)
    /\ states = <<>>
    /\ cursor = NoCursor
    /\ asynchronously \in BOOLEAN
    /\ closed = FALSE
    /\ tasks = [t \in Tasks |-> IdleTask]
    /\ navs = 0
    /\ phase = IF asynchronously THEN "mixed" ELSE "nav"
    /\ nb = 0
    /\ backK = 0
    /\ last = NoCall
    /\ cfg = DefaultCfg
    /\ docs = Untracked
    /\ jar = <<>>
    /\ blob = <<>>
    /\ jar2 = <<>>
    /\ closes = 0

\* __init__ seen as a step: session and parser are set, then the cache
\* arguments are validated, and only then are _maxlen, _states and _cursor
\* assigned.  A ValueError leaves no browser behind.
Construct(cache, max_age, max_count) ==
    /\ cfg.built = "new"
    /\ LET err == ConstructErr(cache, max_age, max_count)
       IN  /\ cfg' = Cfg(cache, max_age, max_count,
                         IF err = "" THEN "ok" ELSE "error")
           /\ maxlen' = IF err = "" THEN InitMaxlen(history) ELSE maxlen
    /\ UNCHANGED <<history, states, cursor, asynchronously, closed, tasks,
                   navs, phase, nb, backK, last, docs, jar, blob, jar2, closes>>

\* ------------------------------------------------- the effect of a call
\* a navigation that raised: nothing but the call log changes
Raise(op, url, req, err) ==
    /\ last' = Call(op, 0, url, req, err, states, cursor, backK, TRUE)
    /\ phase' = PhaseAfterNav(phase, FALSE)
    /\ UNCHANGED <<rest, history, maxlen, states, cursor, asynchronously, closed,
                   tasks, navs, nb, backK>>

\* a navigation whose request returned `response`: _update_state(response)
Push(op, url, req, response) ==
    /\ navs < MaxNav
    /\ LET new == UpdateState(states, cursor, maxlen, RoboState(navs + 1, response))
       IN  /\ states' = new.states
           /\ cursor' = new.cursor
    /\ navs' = navs + 1
    /\ last' = Call(op, 0, url, req, "", states, cursor, backK, TRUE)
    /\ phase' = PhaseAfterNav(phase, TRUE)
    /\ backK' = 0
    /\ nb' = 0
    /\ UNCHANGED <<rest, history, maxlen, asynchronously, closed, tasks>>

\* mutant: the forward entries are dropped before the request is sent
RequestAndUpdateEager(op, arg, url, response, fails) ==
    IF fails \/ ~CanDispatch(url)
    THEN /\ last' = Call(op, 0, arg, <<url>>, "Dispatch", states, cursor, backK, TRUE)
         /\ states' = ClearTrailing(states, cursor)
         /\ phase' = PhaseAfterNav(phase, FALSE)
         /\ UNCHANGED <<rest, history, maxlen, cursor, asynchronously, closed,
                        tasks, navs, nb, backK>>
    ELSE Push(op, arg, <<url>>, response)

\* response = self.session.request(method, url, ...); self._update_state(response)
RequestAndUpdate(op, arg, url, response, fails) ==
    IF fails \/ ~CanDispatch(url)
    THEN Raise(op, arg, <<url>>, "Dispatch")
    ELSE Push(op, arg, <<url>>, response)

\* ----------------------------------------------------------------- open
Open(url, response, fails) ==
    /\ ~asynchronously
    /\ RequestAndUpdate("open", url, url, response, fails)
    /\ KeepDocs(docs)

\* ---------------------------------------------------------- follow_link
\* link: hashref (the element has an href attribute), href (its value)
\* mutant: a missing href reads as the empty string
LinkErrLenient(link) == ""

\* href = link['href'], KeyError turned into RoboError
LinkErr(link) == IF ~link.hashref THEN "NoHref" ELSE ""

FollowLink(link, response, fails) ==
    /\ ~asynchronously
    /\ IF LinkErr(link) # "" THEN Raise("follow_link", EmptyUrl, <<>>, LinkErr(link))
       ELSE IF StateErr(states, cursor) # ""
            THEN Raise("follow_link", link.href, <<>>, StateErr(states, cursor))
       ELSE RequestAndUpdate("follow_link", link.href,
                             urljoin(CurUrl, link.href), response, fails)
    /\ KeepDocs(docs)

\* ---------------------------------------------------------- submit_form
\* mutant: the action is sent as written
SubmitTargetRaw(base, action) == action

\* url = self._build_url(form.action) or self.url
SubmitTarget(base, action) == OrUrl(urljoin(base, action), base)

\* form: action (its action attribute), valid (serialize(submit) returns)
SubmitForm(form, response, fails) ==
    /\ ~asynchronously
    /\ IF StateErr(states, cursor) # ""
       THEN Raise("submit_form", form.action, <<>>, StateErr(states, cursor))
       ELSE IF ~form.valid
            THEN Raise("submit_form", form.action, <<>>, "InvalidSubmit")
       ELSE RequestAndUpdate("submit_form", form.action,
                             SubmitTarget(CurUrl, form.action),
                             response, fails)
    /\ KeepDocs(docs)

\* --------------------------------------------------------- meta_refresh
MetaRefreshReturns ==
    /\ last' = Call("meta_refresh", 0, EmptyUrl, <<>>, "", states, cursor, backK, TRUE)
    /\ phase' = PhaseAfterNav(phase, FALSE)
    /\ UNCHANGED <<rest, history, maxlen, states, cursor, asynchronously, closed,
                   tasks, navs, nb, backK>>

MetaRefresh(response, fails) ==
    /\ ~asynchronously
    /\ IF StateErr(states, cursor) # ""
       THEN Raise("meta_refresh", EmptyUrl, <<>>, StateErr(states, cursor))
       ELSE IF ~CurMeta.tag THEN MetaRefreshReturns
       ELSE IF ~CurMeta.hasattr
            THEN Raise("meta_refresh", EmptyUrl, <<>>, "KeyError")
       ELSE IF CurMeta.content = <<>> THEN MetaRefreshReturns
       ELSE IF ReMatches(CurMeta.content) = {} THEN MetaRefreshReturns
       ELSE RequestAndUpdate("meta_refresh", ReGroup1(CurMeta.content),
                             ReGroup1(CurMeta.content), response, fails)
    \* self.find reads self.parsed before anything else
    /\ KeepDocs(ReadParsed(docs, states, cursor))

\* ------------------------------------------- parsed, load_html, reparse
\* a call that reads or writes the document of the current state and leaves
\* the history alone; reading self.state raises when there is none
DocCall(op, D) ==
    /\ ~asynchronously
    /\ Raise(op, EmptyUrl, <<>>, StateErr(states, cursor))
    /\ docs' = IF docs = Untracked \/ StateErr(states, cursor) # "" THEN docs ELSE D

\* browser.parsed
Parsed == DocCall("parsed", ReadParsed(docs, states, cursor))

\* load_html(html): self.state.parsed = BeautifulSoup(html, ...)
LoadHtml(meta) ==
    DocCall("load_html", [docs EXCEPT ![CurState.id].doc = "html",
                                      ![CurState.id].meta = meta])

\* reparse(): self.state.parsed = BeautifulSoup(content, ...)
Reparse == DocCall("reparse", [docs EXCEPT ![CurState.id].doc = "re"])

\* ------------------------------------------------------------ cookies
\* An http.cookiejar.Cookie, its fields as byte values; a jar is the
\* sequence iter(session.cookies) yields: cookies grouped by domain in the
\* order the domains were first stored, one cookie per (domain, path, name).
Cookie(d, p, n, v) == [domain |-> d, path |-> p, name |-> n, value |-> v]
Key(c) == <<c.domain, c.path, c.name>>

\* session.cookies.set_cookie(cookie)
SetCookie(j, c) ==
    IF \E i \in 1..Len(j) : Key(j[i]) = Key(c)
    THEN [i \in 1..Len(j) |-> IF Key(j[i]) = Key(c) THEN c ELSE j[i]]
    ELSE IF \E i \in 1..Len(j) : j[i].domain = c.domain
    THEN LET k == CHOOSE i \in 1..Len(j) :
                    /\ j[i].domain = c.domain
                    /\ \A m \in (i + 1)..Len(j) : j[m].domain # c.domain
         IN  SubSeq(j, 1, k) \o <<c>> \o SubSeq(j, k + 1, Len(j))
    ELSE Append(j, c)

\* set_cookies(cookies): for cookie in cookies: set_cookie(cookie)
RECURSIVE SetCookies(_, _)
SetCookies(j, cs) ==
    IF cs = <<>> THEN j ELSE SetCookies(SetCookie(j, Head(cs)), Tail(cs))

\* pickle.dumps(list): here the length, the four fields of each cookie and
\* the STOP opcode "."
RECURSIVE Flat(_)
Flat(cs) ==
    IF cs = <<>> THEN <<>>
    ELSE <<Head(cs).domain, Head(cs).path, Head(cs).name, Head(cs).value>>
            \o Flat(Tail(cs))
Dumps(cs) == <<Len(cs)>> \o Flat(cs) \o <<46>>

\* pickle.loads(bytes): the error it raises, "" for none
LoadsErr(b) ==
    IF b = <<>> THEN "EOFError"
    ELSE IF Len(b) # 4 * b[1] + 2 \/ b[Len(b)] # 46 THEN "UnpicklingError"
    ELSE ""

\* pickle.loads(bytes) of bytes it accepts
Loads(b) ==
    [i \in 1..b[1] |-> Cookie(b[4 * i - 2], b[4 * i - 1], b[4 * i], b[4 * i + 1])]

\* base64.b64encode(b).decode(): three bytes give four characters, written
\* as their index 0..63 in the base64 alphabet; 64 is the padding "="
RECURSIVE B64Encode(_)
B64Encode(b) ==
    IF b = <<>> THEN <<>>
    ELSE IF Len(b) = 1
    THEN <<b[1] \div 4, (b[1] % 4) * 16, 64, 64>>
    ELSE IF Len(b) = 2
    THEN <<b[1] \div 4, (b[1] % 4) * 16 + b[2] \div 16, (b[2] % 16) * 4, 64>>
    ELSE <<b[1] \div 4, (b[1] % 4) * 16 + b[2] \div 16,
           (b[2] % 16) * 4 + b[3] \div 64, b[3] % 64>>
            \o B64Encode(SubSeq(b, 4, Len(b)))

\* mutant: a padded group is skipped
RECURSIVE B64DecodeWhole(_)
B64DecodeWhole(t) ==
    IF t = <<>> THEN <<>>
    ELSE IF t[4] = 64 THEN <<>>
    ELSE <<t[1] * 4 + t[2] \div 16, (t[2] % 16) * 16 + t[3] \div 4,
           (t[3] % 4) * 64 + t[4]>> \o B64DecodeWhole(SubSeq(t, 5, Len(t)))

\* base64.b64decode(text)
RECURSIVE B64Decode(_)
B64Decode(t) ==
    IF t = <<>> THEN <<>>
    ELSE <<t[1] * 4 + t[2] \div 16>>
         \o (IF t[3] = 64 THEN <<>> ELSE <<(t[2] % 16) * 16 + t[3] \div 4>>)
         \o (IF t[4] = 64 THEN <<>> ELSE <<(t[3] % 4) * 64 + t[4]>>)
         \o B64Decode(SubSeq(t, 5, Len(t)))

\* a call on the cookies: the history is not touched
CookieCall(op, err) ==
    /\ ~asynchronously
    /\ last' = Call(op, 0, EmptyUrl, <<>>, err, states, cursor, backK, TRUE)
    /\ UNCHANGED <<cfg, closes, docs, history, maxlen, states, cursor,
                   asynchronously, closed, tasks, navs, phase, nb, backK>>

\* set_cookies([c]) on the browser whose cookies are exported
StoreCookie(c) ==
    /\ Len(SetCookie(jar, c)) <= MaxCookies
    /\ jar' = SetCookie(jar, c)
    /\ CookieCall("set_cookies", "")
    /\ UNCHANGED <<blob, jar2>>

\* text = browser.get_serialized_cookies()
GetSerializedCookies ==
    /\ blob' = B64Encode(Dumps(jar))
    /\ CookieCall("get_serialized_cookies", "")
    /\ UNCHANGED <<jar, jar2>>

\* RoboBrowser(): a second browser on a new requests.Session
NewSession ==
    /\ jar2' = <<>>
    /\ CookieCall("init", "")
    /\ UNCHANGED <<jar, blob>>

\* other.set_serialized_cookies(text); the text is empty until the first
\* export, and pickle.loads(b"") raises EOFError
SetSerializedCookies ==
    /\ LET b == B64Decode(blob)
       IN  IF LoadsErr(b) # ""
           THEN CookieCall("set_serialized_cookies", LoadsErr(b)) /\ UNCHANGED jar2
           ELSE /\ jar2' = SetCookies(jar2, Loads(b))
                /\ CookieCall("set_serialized_cookies", "")
    /\ UNCHANGED <<jar, blob>>

\* ------------------------------------------------- _traverse, back, forward
Traverse(op, n, delta) ==
    /\ LET err == TraverseErr(history, states, cursor, delta)
       IN  /\ cursor' = IF err = "" THEN cursor + delta ELSE cursor
           /\ backK' = IF err = "" THEN backK - delta ELSE backK
           /\ last' = Call(op, n, EmptyUrl, <<>>, err, states, cursor, backK, TRUE)
           /\ nb' = IF PhaseAfterMove(phase, delta) # "back1" THEN 0
                    ELSE IF err = "" THEN nb + 1 ELSE nb
           /\ tasks' = IF err = "" THEN Disturb(tasks) ELSE tasks
    /\ phase' = PhaseAfterMove(phase, delta)
    /\ UNCHANGED <<rest, docs, history, maxlen, states, asynchronously, closed, navs>>

\* mutant: back moves the way forward does
BackUnsigned(n) == Traverse("back", n, n)

Back(n) == Traverse("back", n, -1 * n)

Forward(n) == Traverse("forward", n, n)

\* ---------------------------------------------------------------- aopen
\* aopen(url) up to its first await: the closed-session check
\* mutant: aopen does not look at session.closed
AopenClosedErrNever(c) == ""

\* if self.session.closed: raise exceptions.SessionClosedError
AopenClosedErr(c) == IF c THEN "SessionClosed" ELSE ""

AopenCall(t, url) ==
    /\ asynchronously
    /\ tasks[t].pc = "idle"
    /\ \A s \in 1..(t - 1) : tasks[s].pc # "idle"
    /\ IF AopenClosedErr(closed) # ""
       THEN /\ last' = Call("aopen", 0, url, <<>>, "SessionClosed",
                            states, cursor, backK, TRUE)
            /\ UNCHANGED tasks
       ELSE /\ tasks' = [tasks EXCEPT ![t] =
                           [pc |-> "dispatch", url |-> url, resp |-> NoResponse,
                            cstates |-> states, ccursor |-> cursor,
                            cbackK |-> backK, clean |-> TRUE,
                            older |-> {s \in Tasks : tasks[s].pc # "idle"}]]
            /\ UNCHANGED last
    /\ UNCHANGED <<rest, docs, history, maxlen, states, cursor, asynchronously, closed,
                   navs, phase, nb, backK>>

\* an await of aopen raised: the coroutine ends, _update_state is not reached
AopenRaise(t, req, err) ==
    /\ last' = Call("aopen", 0, tasks[t].url, req, err, tasks[t].cstates,
                    tasks[t].ccursor, tasks[t].cbackK, tasks[t].clean)
    /\ tasks' = Finish(tasks, t)
    /\ UNCHANGED <<rest, docs, history, maxlen, states, cursor, asynchronously, closed,
                   navs, phase, nb, backK>>

AopenStep(t, pc, resp) ==
    /\ tasks' = [tasks EXCEPT ![t].pc = pc, ![t].resp = resp]
    /\ UNCHANGED <<rest, docs, history, maxlen, states, cursor, asynchronously, closed,
                   navs, phase, nb, backK, last>>

\* responses held by coroutines that have not pushed them yet
Pending == Cardinality({t \in Tasks : tasks[t].pc \in {"read", "text", "exit"}})

\* async with getattr(self.session, method)(url, ...) as resp
AopenDispatch(t, response, fails) ==
    /\ tasks[t].pc = "dispatch"
    /\ IF fails \/ ~CanDispatch(tasks[t].url)
       THEN AopenRaise(t, <<tasks[t].url>>, "Dispatch")
       ELSE /\ navs + Pending < MaxANav
            /\ AopenStep(t, "read", response)

\* mutant: the state is pushed as soon as the body is read, before the text
AopenReadPushes(t, fails) ==
    /\ tasks[t].pc = "read"
    /\ IF fails THEN AopenRaise(t, <<tasks[t].url>>, "Read")
       ELSE AopenStep(t, "exit", tasks[t].resp)

\* content = await resp.read()
AopenRead(t, fails) ==
    /\ tasks[t].pc = "read"
    /\ IF fails THEN AopenRaise(t, <<tasks[t].url>>, "Read")
       ELSE AopenStep(t, "text", tasks[t].resp)

\* text = await resp.text(encoding)
AopenText(t, fails) ==
    /\ tasks[t].pc = "text"
    /\ IF fails THEN AopenRaise(t, <<tasks[t].url>>, "Text")
       ELSE AopenStep(t, "exit", tasks[t].resp)

\* the response context exits; resp.content, resp.text are set and
\* self._update_state(resp) runs without another await
AopenUpdate(t) ==
    /\ tasks[t].pc = "exit"
    /\ LET new == UpdateState(states, cursor, maxlen,
                              RoboState(navs + 1, tasks[t].resp))
       IN  /\ states' = new.states
           /\ cursor' = new.cursor
    /\ navs' = navs + 1
    /\ last' = Call("aopen", Cardinality(tasks[t].older), tasks[t].url,
                    <<tasks[t].url>>, "", states, cursor, backK, tasks[t].clean)
    /\ tasks' = Disturb(Finish(tasks, t))
    /\ phase' = PhaseAfterNav(phase, TRUE)
    /\ backK' = 0
    /\ nb' = 0
    /\ docs' = DocsPushed(docs, states')
    /\ UNCHANGED <<rest, history, maxlen, asynchronously, closed>>

\* What `await self.session.close()` can do: close the client ("ok"), or
\* raise; TypeError is the failure aclose expects, OSError stands for any other.
Outcomes == {"ok", "TypeError", "OSError"}
ReleaseOps == {"aclose", "__aexit__"}

\* the error the release lets through: __aexit__ awaits close bare, aclose
\* wraps it in try / except TypeError
ReleaseErr(op, outcome) ==
    IF outcome = "ok" THEN ""
    ELSE IF op = "aclose" /\ outcome = "TypeError" THEN ""
    ELSE outcome

\* aclose() / __aexit__(): each call calls session.close() again.  The call
\* record keeps in n whether the client was already closed (1) or not (0).
Release(op, outcome) ==
    /\ asynchronously
    /\ closes < MaxClose
    /\ closes' = closes + 1
    /\ closed' = (closed \/ outcome = "ok")
    /\ last' = Call(op, IF closed THEN 1 ELSE 0, EmptyUrl, <<>>,
                    ReleaseErr(op, outcome), states, cursor, backK, TRUE)
    /\ UNCHANGED <<cfg, jar, blob, jar2, docs, history, maxlen, states, cursor,
                   asynchronously, tasks, navs, phase, nb, backK>>

\* the first release, by aclose, of a client that closes without error
AClose == ~closed /\ Release("aclose", "ok")

\* ------------------------------------------------------ inputs and Next
NRange == (-1)..MaxN

UA == Abs(<<"a">>)
UAB == Abs(<<"a", "b">>)
RelB == Rel(<<"b">>)
RootB == Rooted(<<"b">>)

Link(hashref, href) == [hashref |-> hashref, href |-> href]
Form(action, valid) == [action |-> action, valid |-> valid]

\* what the server may answer: nothing when the request fails
Answers(R, f) == IF f THEN {NoResponse} ELSE R

\* the inputs of the history specification: one site, few page shapes
HUrls == {UA, RelB}
HResponses == {Response(UA, MetaNoTag), Response(UA, MetaTarget(UA))}
HLinks == {Link(FALSE, EmptyUrl), Link(TRUE, UA)}
HForms == {Form(EmptyUrl, TRUE), Form(EmptyUrl, FALSE)}
AUrls == {UA}
AResponses == {Response(UA, MetaNoTag)}

Next ==
    \/ \E u \in HUrls, f \in BOOLEAN : \E r \in Answers(HResponses, f) :
          Open(u, r, f)
    \/ \E l \in HLinks, f \in BOOLEAN : \E r \in Answers(HResponses, f) :
          FollowLink(l, r, f)
    \/ \E m \in HForms, f \in BOOLEAN : \E r \in Answers(HResponses, f) :
          SubmitForm(m, r, f)
    \/ \E f \in BOOLEAN : \E r \in Answers(HResponses, f) : MetaRefresh(r, f)
    \/ \E n \in NRange : Back(n)
    \/ \E n \in NRange : Forward(n)

\* a blocking browser (requests.Session)
InitSync == Init /\ ~asynchronously

Spec == InitSync /\ [][Next]_vars

\* both kinds of browser: the blocking calls, and aopen on an aiohttp session
NextAll ==
    \/ Next
    \/ \E t \in Tasks, u \in AUrls : AopenCall(t, u)
    \/ \E t \in Tasks, f \in BOOLEAN : \E r \in Answers(AResponses, f) :
          AopenDispatch(t, r, f)
    \/ \E t \in Tasks, f \in BOOLEAN : AopenRead(t, f)
    \/ \E t \in Tasks, f \in BOOLEAN : AopenText(t, f)
    \/ \E t \in Tasks : AopenUpdate(t)
    \/ AClose

SpecAll == Init /\ [][NextAll]_vars

\* a browser on an aiohttp session: aopen calls and releases in any order
InitAsync == Init /\ asynchronously

NextClose ==
    \/ \E t \in Tasks, u \in AUrls : AopenCall(t, u)
    \/ \E t \in Tasks, f \in BOOLEAN : \E r \in Answers(AResponses, f) :
          AopenDispatch(t, r, f)
    \/ \E t \in Tasks, f \in BOOLEAN : AopenRead(t, f)
    \/ \E t \in Tasks, f \in BOOLEAN : AopenText(t, f)
    \/ \E t \in Tasks : AopenUpdate(t)
    \/ \E op \in ReleaseOps, o \in Outcomes : Release(op, o)

SpecClose == InitAsync /\ [][NextClose]_vars

\* the inputs of the URL specification: absolute, relative, rooted and empty
\* URLs, and every shape of the meta refresh tag
UUrls == {UA, UAB, RelB, RootB, EmptyUrl}
UMetas == {MetaNoTag, MetaNoAttr, MetaEmpty, MetaNoUrl, MetaUrlEqOnly,
           MetaTarget(RelB), MetaTarget(UA)}
UResponses == {Response(UAB, m) : m \in UMetas} \cup {Response(UA, MetaNoTag)}
ULinks == {Link(FALSE, EmptyUrl), Link(TRUE, RelB), Link(TRUE, UA)}
UForms == {Form(EmptyUrl, TRUE), Form(RelB, TRUE), Form(RootB, TRUE),
           Form(UA, TRUE), Form(RelB, FALSE)}

\* a blocking browser, with history=True or history=1
InitUrl == Init /\ ~asynchronously /\ history \in {HistTrue, 1}

NextUrl ==
    \/ \E u \in UUrls, f \in BOOLEAN : \E r \in Answers(UResponses, f) :
          (f \/ navs < MaxUrlNav) /\ Open(u, r, f)
    \/ \E l \in ULinks, f \in BOOLEAN : \E r \in Answers(UResponses, f) :
          (f \/ navs < MaxUrlNav) /\ FollowLink(l, r, f)
    \/ \E m \in UForms, f \in BOOLEAN : \E r \in Answers(UResponses, f) :
          (f \/ navs < MaxUrlNav) /\ SubmitForm(m, r, f)
    \/ \E f \in BOOLEAN : \E r \in Answers(UResponses, f) :
          (f \/ navs < MaxUrlNav) /\ MetaRefresh(r, f)
    \/ \E n \in NRange : Back(n)
    \/ \E n \in NRange : Forward(n)

SpecUrl == InitUrl /\ [][NextUrl]_vars

\* construction followed by blocking navigation of the browser it made
InitCtor ==
    /\ history \in Histories
    /\ maxlen = None
    /\ states = <<>>
    /\ cursor = NoCursor
    /\ asynchronously = FALSE
    /\ closed = FALSE
    /\ tasks = [t \in Tasks |-> IdleTask]
    /\ navs = 0
    /\ phase = "nav"
    /\ nb = 0
    /\ backK = 0
    /\ last = NoCall
    /\ cfg = Cfg(FALSE, "None", "None", "new")
    /\ docs = Untracked
    /\ jar = <<>>
    /\ blob = <<>>
    /\ jar2 = <<>>
    /\ closes = 0

NextCtor ==
    \/ \E c \in BOOLEAN, a \in ArgValues, m \in ArgValues : Construct(c, a, m)
    \/ \E r \in AResponses, f \in BOOLEAN :
          cfg.built = "ok" /\ navs < MaxUrlNav /\ Open(UA, r, f)
    \/ cfg.built = "ok" /\ Back(1)

SpecCtor == InitCtor /\ [][NextCtor]_vars

\* a blocking browser whose parsed documents are followed
InitParse ==
    /\ history \in {HistTrue, 1}
    /\ maxlen = InitMaxlen(history)
    /\ states = <<>>
    /\ cursor = NoCursor
    /\ asynchronously = FALSE
    /\ closed = FALSE
    /\ tasks = [t \in Tasks |-> IdleTask]
    /\ navs = 0
    /\ phase = "nav"
    /\ nb = 0
    /\ backK = 0
    /\ last = NoCall
    /\ cfg = DefaultCfg
    /\ docs = <<>>
    /\ jar = <<>>
    /\ blob = <<>>
    /\ jar2 = <<>>
    /\ closes = 0

NextParse ==
    \/ \E r \in HResponses, f \in BOOLEAN : navs < MaxUrlNav /\ Open(UA, r, f)
    \/ \E f \in BOOLEAN : navs < MaxUrlNav /\ MetaRefresh(Response(UA, MetaNoTag), f)
    \/ Back(1)
    \/ Forward(1)
    \/ Parsed
    \/ \E m \in {MetaNoTag, MetaTarget(UA)} : LoadHtml(m)
    \/ Reparse

SpecParse == InitParse /\ [][NextParse]_vars

\* two blocking browsers, cookies exported from one and imported by the other
Cookies == {Cookie(97, 47, 107, 118), Cookie(97, 47, 107, 255),
            Cookie(97, 47, 108, 0), Cookie(98, 47, 107, 118)}

NextCookies ==
    \/ \E c \in Cookies : StoreCookie(c)
    \/ GetSerializedCookies
    \/ NewSession
    \/ SetSerializedCookies

InitCookies == InitSync /\ history = HistTrue

SpecCookies == InitCookies /\ [][NextCookies]_vars

\* ================================================================ claims
\* the call made a request that returned and its response was pushed
Pushed(c) == c.op \in NavOps /\ c.err = "" /\ c.req # <<>>

Ids(sts) == [i \in 1..Len(sts) |-> sts[i].id]

\* C1: in every reachable state the cursor is a valid index into the state
\* sequence (0 <= cursor < length), and it is -1 exactly when the sequence
\* is empty, under every history policy and after any calls.
C1_CursorValid ==
    IF states = <<>> THEN cursor = NoCursor
    ELSE cursor >= 0 /\ cursor < Len(states)

\* a back() that succeeded on a bounded history that has evicted its head
C1_Witness ==
    /\ maxlen # None /\ navs > Len(states)
    /\ last.op = "back" /\ last.err = "" /\ cursor = 0 /\ Len(states) = 2

\* C2: when a maximum length is set (history off: 1, history=N: N) the
\* number of states held never exceeds it.
C2_LengthBounded == maxlen # None => Len(states) <= maxlen

\* a push that had to evict: more navigations than the history can hold
C2_Witness ==
    /\ Pushed(last) /\ history = 2 /\ Len(last.pstates) = 2
    /\ last.pcursor = 1 /\ Len(states) = 2

\* C3: a successful navigation made after moving back K >= 1 steps discards
\* exactly the K forward entries, keeps the entries up to the cursor, ends
\* with the new state under the cursor, and leaves no forward(n), n >= 1,
\* that succeeds: it raises the out-of-range error.
C3_TruncateForward ==
    /\ (Pushed(last) /\ last.pbackK >= 1) =>
         LET K == last.pbackK
             P == last.pstates
         IN  /\ Len(P) - K >= 1
             /\ Len(states) = Len(P) - K + 1
             /\ SubSeq(states, 1, Len(states) - 1) = SubSeq(P, 1, Len(P) - K)
             /\ states[Len(states)].id = navs
             /\ \A j \in (Len(P) - K + 1)..Len(P) :
                  \A i \in 1..Len(states) : states[i].id # P[j].id
             /\ cursor = Len(states) - 1
             /\ \A n \in 1..MaxN :
                  TraverseErr(history, states, cursor, n) = "OutOfRange"
    /\ (last.op = "forward" /\ last.n >= 1 /\ last.pbackK = 0 /\ history # 0) =>
         /\ last.err = "OutOfRange"
         /\ cursor = last.pcursor

\* a navigation that abandoned one forward entry out of two
C3_Witness ==
    /\ Pushed(last) /\ last.pbackK = 2 /\ Len(last.pstates) = 3
    /\ Ids(states) = <<1, 4>>

\* C4: with history=M, after N > M successful navigations and no move, the
\* history holds exactly the M most recent states in order, and no sequence
\* of back(n) calls, n >= 1, reaches one of the N-M oldest.
C4_BoundedKeepsNewest ==
    (history >= 1 /\ navs > history /\ phase \in {"nav", "back1", "back"}) =>
        /\ Len(states) = history
        /\ \A i \in 1..Len(states) : states[i].id = navs - history + i
        /\ phase = "nav" => cursor = Len(states) - 1
        /\ cursor >= 0 /\ cursor < Len(states)
        /\ states[cursor + 1].id > navs - history
        /\ \A n \in 1..MaxN :
             TraverseErr(history, states, cursor, -1 * n) = "" =>
                 states[cursor - n + 1].id > navs - history

\* N = 4 navigations with M = 2, then a back(): the oldest kept state
C4_Witness ==
    /\ history = 2 /\ navs = 4 /\ phase = "back1"
    /\ last.op = "back" /\ last.err = "" /\ states[cursor + 1].id = 3

\* C5: with history=True, after N >= 1 successful navigations and no move,
\* the history holds N states; back() then succeeds N-1 times in a row and
\* raises the out-of-range error on the N-th call.
C5_UnboundedBack ==
    (history = HistTrue /\ navs >= 1 /\ phase \in {"nav", "back1"}) =>
        /\ Len(states) = navs
        /\ nb <= navs - 1
        /\ cursor = navs - 1 - nb
        /\ nb < navs - 1 => TraverseErr(history, states, cursor, -1) = ""
        /\ nb = navs - 1 => TraverseErr(history, states, cursor, -1) = "OutOfRange"
        /\ (phase = "back1" /\ last.op = "back" /\ last.err # "") =>
              /\ last.err = "OutOfRange"
              /\ nb = navs - 1

\* the N-th back() after N = 3 navigations
C5_Witness ==
    /\ history = HistTrue /\ navs = 3 /\ phase = "back1" /\ nb = 2
    /\ last.op = "back" /\ last.err = "OutOfRange"

\* C6: with history off every back(n) and forward(n) raises the
\* history-disabled error, for every n and any number of navigations, and
\* the history never holds more than one state.
C6_HistoryOff ==
    history = 0 =>
        /\ Len(states) <= 1
        /\ \A n \in NRange : TraverseErr(history, states, cursor, n) = "NoHistory"
        /\ last.op \in MoveOps =>
              /\ last.err = "NoHistory"
              /\ cursor = last.pcursor
              /\ states = last.pstates

\* back(0) with history off and a page open: the target is in range
C6_Witness ==
    /\ history = 0 /\ navs = 2 /\ last.op = "back" /\ last.n = 0
    /\ last.err = "NoHistory"

\* C7: a navigation (open, aopen, follow_link, submit_form, meta_refresh)
\* that raises leaves the state sequence and the cursor as they were when it
\* was called.
C7_FailedNavNoChange ==
    (last.op \in NavOps /\ last.err # "" /\ last.clean) =>
        /\ states = last.pstates
        /\ cursor = last.pcursor

\* an aopen whose body read failed while forward entries existed
C7_Witness ==
    /\ last.op = "aopen" /\ last.err = "Read" /\ last.clean
    /\ Len(states) = 2 /\ cursor = 0

\* the page that was current when the last call was made
PreState == last.pstates[last.pcursor + 1]

\* a target URL can be extracted from the meta refresh tag m
HasTarget(m) == m.tag /\ m.hasattr /\ ReMatches(m.content) # {}

\* C8: meta_refresh on a current page makes no request and raises no error
\* when the tag is missing, when its content attribute is absent or empty,
\* or when the content has no url= part; it makes a request only when a
\* target URL is extracted.
C8_MetaRefreshSilent ==
    (last.op = "meta_refresh" /\ last.pcursor # NoCursor) =>
        /\ ~HasTarget(PreState.meta) =>
              /\ last.err = ""
              /\ last.req = <<>>
              /\ states = last.pstates
              /\ cursor = last.pcursor
        /\ last.req # <<>> => HasTarget(PreState.meta)

\* C9: open(url), and the open made by meta_refresh, send the request to url
\* resolved against the URL of the current page: a relative url is merged
\* with it, an absolute url is used as given.
C9_OpenResolves ==
    (last.op \in {"open", "meta_refresh"} /\ last.pcursor # NoCursor
       /\ last.req # <<>> /\ last.url # EmptyUrl) =>
        last.req = <<urljoin(PreState.url, last.url)>>

\* C10: submit_form sends the request to the URL of the current page when
\* the action is empty and to urljoin(current URL, action) when it is
\* relative; when the request returns, exactly one new state is pushed.
C10_SubmitTarget ==
    (last.op = "submit_form" /\ last.req # <<>>) =>
        /\ last.url = EmptyUrl => last.req = <<PreState.url>>
        /\ (last.url # EmptyUrl /\ ~last.url.abs /\ ~last.url.rooted) =>
              last.req = <<[PreState.url EXCEPT
                              !.path = Front(PreState.url.path) \o last.url.path]>>
        /\ (last.url # EmptyUrl /\ ~last.url.abs /\ last.url.rooted) =>
              last.req = <<[PreState.url EXCEPT !.path = last.url.path]>>
        /\ last.err = "" =>
              /\ states[Len(states)].id = navs
              /\ states[Len(states)].id = last.pstates[Len(last.pstates)].id + 1
                 \/ last.pstates = <<>>
              /\ cursor = Len(states) - 1
              /\ \A i \in 1..(Len(states) - 1) :
                   \E j \in 1..(last.pcursor + 1) : states[i] = last.pstates[j]
              /\ Len(states) =
                   IF maxlen # None /\ last.pcursor + 2 > maxlen
                   THEN maxlen ELSE last.pcursor + 2

\* a form with a relative action submitted from http://h/a/b
C10_Witness ==
    /\ last.op = "submit_form" /\ last.err = "" /\ last.url = RelB
    /\ PreState.url = UAB /\ last.req = <<UAB>> /\ Len(states) = 2

\* C11: constructing the browser with max_age or max_count supplied while
\* caching is disabled fails with a configuration error: whenever __init__
\* was given either argument with cache false, it ended in the ValueError
\* and no browser came to exist.
C11_CacheArgsRejected ==
    (/\ cfg.built # "new"
     /\ ~cfg.cache
     /\ (cfg.max_age # "None" \/ cfg.max_count # "None"))
        => cfg.built = "error" /\ states = <<>>

\* C12: once the aiohttp session has been closed (by __aexit__ or aclose),
\* every later aopen raises SessionClosedError without dispatching a
\* request and leaves the history and the cursor unchanged: no call enters
\* the session while it is closed, and the call that raised handed no URL to
\* the session and changed neither _states nor _cursor.
C12_ClosedRejects ==
    /\ [](last.err = "SessionClosed" =>
            /\ closed /\ last.op = "aopen" /\ last.req = <<>>
            /\ \/ ~last.clean
               \/ states = last.pstates /\ cursor = last.pcursor)
    /\ [][closed =>
            /\ \A t \in Tasks : tasks[t].pc = "idle" => tasks'[t].pc = "idle"
            /\ (last' # last /\ last'.err = "SessionClosed")
                  => states' = states /\ cursor' = cursor]_vars

\* aopen raised SessionClosedError on a browser that holds two states
C12_Witness ==
    /\ closed /\ last.op = "aopen" /\ last.err = "SessionClosed"
    /\ last.req = <<>> /\ Len(states) = 2

\* C13: releasing an aiohttp-backed browser a second time, against the
\* already closed client (any combination of __aexit__ and aclose), raises
\* no error even when the client's close itself fails.
C13_SecondReleaseTolerated ==
    (last.op \in ReleaseOps /\ last.n = 1) => last.err = ""

\* C14: follow_link on an element without an href attribute raises the
\* missing-href error, makes no request and changes neither _states nor
\* _cursor; with an href and a current page it hands exactly one URL to the
\* session, the href resolved against the URL of the current page.  (Every
\* link of ULinks that has an href has a non-empty one, so an empty URL
\* argument in the call record means the attribute was missing.)
C14_FollowLink ==
    last.op = "follow_link" =>
        /\ last.url = EmptyUrl =>
              /\ last.err = "NoHref" /\ last.req = <<>>
              /\ states = last.pstates /\ cursor = last.pcursor
        /\ (last.url # EmptyUrl /\ last.pstates # <<>>) =>
              /\ last.err \in {"", "Dispatch"}
              /\ last.req =
                    <<IF last.url.abs THEN last.url
                      ELSE IF last.url.rooted
                           THEN [PreState.url EXCEPT !.path = last.url.path]
                      ELSE [PreState.url EXCEPT
                              !.path = Front(PreState.url.path) \o last.url.path]>>
              /\ last.err = "" => Len(states) = last.pcursor + 2 \/ Len(states) = maxlen

\* a link without href was followed on a browser that shows a page
C14_Witness ==
    /\ last.op = "follow_link" /\ last.err = "NoHref" /\ last.req = <<>>
    /\ Len(states) = 2 /\ cursor = 1

\* the state with this id is the one at the cursor
IsCurrent(id) == states # <<>> /\ states[cursor + 1].id = id

\* C15: the parsed document of a state is computed at most once, on the
\* first access; afterwards it changes only when reparse or load_html
\* overwrites it while that state is the current one; open, follow_link,
\* submit_form, back and forward never compute or change the document of a
\* state that stays in the history.
C15_ParsedOnce ==
    /\ [](\A i \in 1..Len(docs) : docs[i].n <= 1)
    /\ [][\A i \in 1..Len(docs) :
            (docs'[i] # docs[i] /\ docs'[i] # Gone) =>
                /\ IsCurrent(i)
                /\ \/ /\ last'.op \in {"parsed", "meta_refresh"}
                      /\ docs[i].doc = "unset"
                      /\ docs'[i] = [docs[i] EXCEPT !.doc = "lazy", !.n = 1]
                   \/ /\ last'.op \in {"load_html", "reparse"}
                      /\ states' = states /\ cursor' = cursor
                      /\ docs'[i].n = docs[i].n]_vars

\* after going back, the first page was given a document by load_html, having
\* been parsed once before, while the second keeps the one parsed on access
C15_Witness ==
    /\ Len(states) = 2 /\ cursor = 0 /\ last.op = "load_html"
    /\ docs[states[1].id].doc = "html" /\ docs[states[1].id].n = 1
    /\ docs[states[2].id].doc = "lazy" /\ docs[states[2].id].n = 1

\* C16: exporting the cookies of a session with get_serialized_cookies and
\* importing the text into a fresh session with set_serialized_cookies gives
\* the fresh session the cookies of the exporting one, for every jar: when
\* the import directly follows the export and the importing jar is empty,
\* the importing jar ends equal to the exporting one.
C16_CookieRoundTrip ==
    [][(/\ last.op = "get_serialized_cookies"
        /\ last'.op = "set_serialized_cookies"
        /\ jar2 = <<>>)
          => last'.err = "" /\ jar2' = jar]_vars

\* two cookies of the same name under two domains went through the text
C16_Witness ==
    /\ last.op = "set_serialized_cookies" /\ last.err = ""
    /\ blob = B64Encode(Dumps(jar))
    /\ jar2 = jar /\ Len(jar) = 2 /\ jar[1].name = jar[2].name
    /\ jar[1].domain # jar[2].domain

\* how many entries _update_state drops from the head of a list of length len
Evicted(len) == IF maxlen # None /\ len > maxlen THEN len - maxlen ELSE 0

\* C17: every navigation whose response was pushed discarded the entries
\* beyond the cursor, appended exactly one new state and left the cursor on
\* it, at the last index; when entries were evicted from the head the cursor
\* was decremented by exactly their number; so right after the push no
\* forward move is possible.
C17_PushShape ==
    Pushed(last) =>
        LET kept == SubSeq(last.pstates, 1, last.pcursor + 1)
            ev == Evicted(Len(kept) + 1)
        IN  /\ Len(states) = Len(kept) + 1 - ev
            /\ \A i \in 1..(Len(states) - 1) : states[i] = kept[i + ev]
            /\ states[Len(states)].id = navs
            /\ \A i \in 1..Len(last.pstates) : last.pstates[i].id < navs
            /\ cursor = last.pcursor + 1 - ev
            /\ cursor = Len(states) - 1
            /\ \A n \in 1..MaxN : TraverseErr(history, states, cursor, n) # ""

\* an aopen pushed onto a full history=2 list: one entry left by the head
C17_Witness ==
    /\ Pushed(last) /\ last.op = "aopen" /\ maxlen = 2
    /\ Len(last.pstates) = 2 /\ last.pcursor = 1 /\ cursor = 1 /\ navs = 3

\* C18: reading the current state fails with the no-state error exactly
\* when the history is empty (cursor = -1) and otherwise gives the state at
\* the cursor; the accessor's out-of-range error is never raised, whatever
\* navigations and back / forward calls came before.
C18_StateRead ==
    /\ (StateErr(states, cursor) = "NoState") <=> (states = <<>>)
    /\ (states = <<>>) <=> (cursor = NoCursor)
    /\ StateErr(states, cursor) # "OutOfRange"
    /\ states # <<>> => CurState = states[cursor + 1]
    /\ last.op \in NavOps =>
          /\ last.err # "OutOfRange"
          /\ last.err = "NoState" => last.pstates = <<>>
    /\ last.op = "meta_refresh" => (last.err = "NoState" <=> last.pstates = <<>>)

\* meta_refresh read the state at the cursor of a history=2 list that had
\* evicted its head and been moved back
C18_Witness ==
    /\ last.op = "meta_refresh" /\ last.err = "" /\ maxlen = 2 /\ navs = 3
    /\ Len(states) = 2 /\ cursor = 0 /\ CurState.id = 2

\* the cursor a move asks for
Target(c) == c.pcursor + (IF c.op = "back" THEN -1 * c.n ELSE c.n)

\* C19: back(n) and forward(n) hand nothing to the session and never change
\* _states; with history on, a move whose target lies in [0, length) sets
\* the cursor to exactly the target and one whose target lies outside raises
\* the out-of-range error and leaves the cursor where it was; a forward(n)
\* called right after a successful back(n) succeeds and returns to the state
\* back(n) left.
C19_Moves ==
    /\ [](last.op \in MoveOps =>
            /\ last.req = <<>> /\ states = last.pstates
            /\ history # 0 =>
                  IF Target(last) >= 0 /\ Target(last) < Len(last.pstates)
                  THEN last.err = "" /\ cursor = Target(last)
                  ELSE last.err = "OutOfRange" /\ cursor = last.pcursor)
    /\ [][(/\ last.op = "back" /\ last.err = ""
            /\ last'.op = "forward" /\ last'.n = last.n)
              => /\ last'.err = ""
                 /\ cursor' = last.pcursor
                 /\ states' = last.pstates
                 /\ navs' = navs]_vars

\* forward(2) right after back(2) on three pages: the third page is current again
C19_Witness ==
    /\ last.op = "forward" /\ last.n = 2 /\ last.err = "" /\ last.pbackK = 2
    /\ last.pcursor = 0 /\ cursor = 2 /\ Len(states) = 3 /\ phase = "mixed"

\* the calls of aopen that are past their closed-session check and not ended
InFlight == {t \in Tasks : tasks[t].pc # "idle"}

\* C20: with several aopen calls in flight on one browser, interleaved at
\* their awaits (dispatch, body read, text decode): the cursor and length
\* invariants hold in every state; a call reaches its push only through the
\* body read and then the text decode; the history changes only in the step
\* in which one call ends after both, and that step is one _update_state
\* with that call's response and with the number of the push, not of the
\* call; a call that ends otherwise leaves the history alone; no step of one
\* call moves another.
C20_ConcurrentAopen ==
    /\ [](asynchronously =>
            /\ IF states = <<>> THEN cursor = NoCursor
               ELSE cursor >= 0 /\ cursor < Len(states)
            /\ maxlen # None => Len(states) <= maxlen
            /\ \A i \in 1..Len(states) : states[i].id <= navs
            /\ \A i \in 1..(Len(states) - 1) : states[i].id < states[i + 1].id)
    /\ [][asynchronously =>
            /\ \A t \in Tasks :
                  /\ (tasks'[t].pc = "exit" /\ tasks[t].pc # "exit")
                        => tasks[t].pc = "text"
                  /\ (tasks'[t].pc = "text" /\ tasks[t].pc # "text")
                        => tasks[t].pc = "read"
                  /\ (tasks[t].pc = "exit" /\ tasks'[t].pc # "exit") =>
                        /\ tasks'[t].pc = "idle"
                        /\ navs' = navs + 1
                        /\ states' = UpdateState(states, cursor, maxlen,
                                        RoboState(navs + 1, tasks[t].resp)).states
                        /\ cursor' = Len(states') - 1
                        /\ states'[Len(states')].id = navs + 1
                  /\ (tasks[t].pc \in {"dispatch", "read", "text"}
                        /\ tasks'[t].pc = "idle") =>
                        states' = states /\ cursor' = cursor /\ navs' = navs
            /\ (states' # states \/ navs' # navs) =>
                  \E t \in Tasks : tasks[t].pc = "exit" /\ tasks'[t].pc = "idle"
            /\ Cardinality({t \in Tasks : tasks'[t].pc # tasks[t].pc}) <= 1]_vars

\* the call made second pushed first; the call made first, still in flight
\* with its response in hand, will push after it
C20_Witness ==
    /\ asynchronously /\ Pushed(last) /\ last.op = "aopen" /\ last.n = 1
    /\ navs = 1 /\ Len(states) = 1
    /\ \E t \in InFlight : tasks[t].pc = "exit" /\ tasks[t].older = {}

====
